---- MODULE Spec2Model ----
(***************************************************************************)
(* A model of tools/golang/xenlight/gengotypes.py: the generator of the    *)
(* Go type declarations (xenlight_types.go) and of the Go <-> C marshaling *)
(* helpers (xenlight_helpers.go) from the libxl IDL.                       *)
(*                                                                         *)
(* Names are sequences of one-character strings, so that                   *)
(* xenlight_golang_fmt_name is computed character by character, as         *)
(* str.split, str.lower and str.title compute it.  Emitted text is kept as *)
(* a sequence of lines; a line is a record whose fields are the values     *)
(* the source formats into the line.                                       *)
(***************************************************************************)
EXTENDS Integers, Sequences, FiniteSets, TLC

VARIABLES
    builtin_type_names, \* the dict of line 11, extended by __main__ (642-644)
    fn_name,            \* fmt_name: the name of the call in progress
    fn_exported,        \* fmt_name: its exported flag
    fn_out,             \* fmt_name: what the call did (returned value or raise)
    pc,                 \* where the program is
    builtins,           \* __main__: the builtins of idl.parse still to add
    types,              \* __main__: the types of idl.parse
    ty_i,               \* the index in types of the type a pass is at
    type_extras,        \* the list of line 29
    cgo_helpers_preamble, \* the list of line 33
    helper_extras,      \* the list of line 37
    f_types,            \* what was written to xenlight_types.go
    f_helpers,          \* what was written to xenlight_helpers.go
    run                 \* the call of a generated function in progress

nameVars == <<fn_name, fn_exported, fn_out>>
genVars  == <<types, ty_i, type_extras, cgo_helpers_preamble, helper_extras,
              f_types, f_helpers>>
vars == <<builtin_type_names, fn_name, fn_exported, fn_out, pc, builtins,
          types, ty_i, type_extras, cgo_helpers_preamble, helper_extras,
          f_types, f_helpers, run>>

-----------------------------------------------------------------------------
(* Characters and the str methods the generator uses.                      *)

LowerChars == <<"a","b","c","d","e","f","g","h","i","j","k","l","m",
                "n","o","p","q","r","s","t","u","v","w","x","y","z">>
UpperChars == <<"A","B","C","D","E","F","G","H","I","J","K","L","M",
                "N","O","P","Q","R","S","T","U","V","W","X","Y","Z">>

IndexIn(c, chars) ==
    LET hits == {i \in 1..Len(chars) : chars[i] = c}
    IN  IF hits = {} THEN 0 ELSE CHOOSE i \in hits : TRUE

LowerSet == {LowerChars[i] : i \in 1..Len(LowerChars)}
UpperSet == {UpperChars[i] : i \in 1..Len(UpperChars)}
ToUpper  == [c \in LowerSet |-> UpperChars[IndexIn(c, LowerChars)]]
ToLower  == [c \in UpperSet |-> LowerChars[IndexIn(c, UpperChars)]]

IsCased(c) == c \in LowerSet \/ c \in UpperSet

\* str.upper() and str.lower() of one character
UpperChar(c) == IF c \in LowerSet THEN ToUpper[c] ELSE c
LowerChar(c) == IF c \in UpperSet THEN ToLower[c] ELSE c

\* str.lower()
StrLower(s) == [i \in 1..Len(s) |-> LowerChar(s[i])]

\* str.title(): a cased character is upper-cased when it follows an uncased
\* one (or starts the string) and lower-cased when it follows a cased one.
StrTitle(s) ==
    [i \in 1..Len(s) |->
        IF ~IsCased(s[i]) THEN s[i]
        ELSE IF i > 1 /\ IsCased(s[i-1]) THEN LowerChar(s[i])
        ELSE UpperChar(s[i])]

\* str.split(sep): the pieces between the separators, empty pieces kept;
\* the empty string splits into one empty piece.
RECURSIVE StrSplit(_, _)
StrSplit(s, sep) ==
    LET at == {i \in 1..Len(s) : s[i] = sep}
    IN  IF at = {} THEN <<s>>
        ELSE LET i == CHOOSE j \in at : \A k \in at : j <= k
             IN  <<SubSeq(s, 1, i-1)>> \o StrSplit(SubSeq(s, i+1, Len(s)), sep)

\* ''.join(ws)
RECURSIVE StrJoin(_)
StrJoin(ws) == IF ws = <<>> THEN <<>> ELSE Head(ws) \o StrJoin(Tail(ws))

\* sep.join(ws), the inverse direction of '{}_{}'.format(a, b)
RECURSIVE StrJoinSep(_, _)
StrJoinSep(ws, sep) ==
    IF ws = <<>> THEN <<>>
    ELSE IF Len(ws) = 1 THEN Head(ws)
    ELSE Head(ws) \o <<sep>> \o StrJoinSep(Tail(ws), sep)

\* '{}_{}'.format(a, b)
Und(a, b) == a \o <<"_">> \o b

-----------------------------------------------------------------------------
(* Names used by the schemas below.                                        *)

N_empty   == <<>>
N_libxl   == <<"l","i","b","x","l">>
N_LIBXL   == <<"L","I","B","X","L">>
N_type    == <<"t","y","p","e">>
N_func    == <<"f","u","n","c">>
N_foo     == <<"f","o","o">>
N_Foo     == <<"F","o","o">>
N_fooBar  == <<"f","o","o","B","a","r">>
N_a1b     == <<"a","1","b">>
N_union   == <<"u","n","i","o","n">>
N_bool    == <<"b","o","o","l">>
N_string  == <<"s","t","r","i","n","g">>
N_charp   == <<"c","h","a","r"," ","*">>
N_int     == <<"i","n","t">>
N_byte    == <<"b","y","t","e">>
N_uint8   == <<"u","i","n","t","8","_","t">>
N_uint16  == <<"u","i","n","t","1","6","_","t">>
N_uint32  == <<"u","i","n","t","3","2","_","t">>
N_uint64  == <<"u","i","n","t","6","4","_","t">>
N_gouint16 == <<"u","i","n","t","1","6">>
N_gouint32 == <<"u","i","n","t","3","2">>
N_gouint64 == <<"u","i","n","t","6","4">>
N_libxl_defbool  == <<"l","i","b","x","l","_","d","e","f","b","o","o","l">>
N_libxl_uuid     == <<"l","i","b","x","l","_","u","u","i","d">>
N_libxl_kind     == <<"l","i","b","x","l","_","k","i","n","d">>
N_KIND_HVM       == <<"L","I","B","X","L","_","K","I","N","D","_","H","V","M">>
N_KIND_NONE      == <<"L","I","B","X","L","_","K","I","N","D","_","N","O","N","E">>
N_KIND_PV        == <<"L","I","B","X","L","_","K","I","N","D","_","P","V">>
N_libxl_plain    == <<"l","i","b","x","l","_","p","l","a","i","n">>
N_libxl_dom      == <<"l","i","b","x","l","_","d","o","m">>
N_libxl_arr      == <<"l","i","b","x","l","_","a","r","r">>
N_libxl_bad      == <<"l","i","b","x","l","_","b","a","d">>
N_libxl_num      == <<"l","i","b","x","l","_","n","u","m">>
N_libxl_deep     == <<"l","i","b","x","l","_","d","e","e","p">>
N_libxl_pure     == <<"l","i","b","x","l","_","p","u","r","e">>
N_libxl_list     == <<"l","i","b","x","l","_","l","i","s","t">>
N_libxl_vm       == <<"l","i","b","x","l","_","v","m">>
N_x              == <<"x">>
N_y              == <<"y">>
N_z              == <<"z">>
N_b              == <<"b">>
N_u              == <<"u">>
N_w              == <<"w">>
N_name           == <<"n","a","m","e">>
N_kind           == <<"k","i","n","d">>
N_inner          == <<"i","n","n","e","r">>
N_outer          == <<"o","u","t","e","r">>
N_hvm            == <<"h","v","m">>
N_pv             == <<"p","v">>
N_none           == <<"n","o","n","e">>
N_items          == <<"i","t","e","m","s">>
N_n_items        == <<"n","_","i","t","e","m","s">>
N_path           == <<"p","a","t","h">>
N_uint16p        == <<"u","i","n","t","1","6","_","t"," ","*">>

\* Some go keywords that conflict with field names in libxl structs.
go_keywords == {N_type, N_func}

go_builtin_types == {N_bool, N_string, N_int, N_byte,
                     N_gouint16, N_gouint32, N_gouint64}

\* The dict of line 11.  Its keys are the typenames of idl.bool, idl.string,
\* idl.integer, idl.uint8, idl.uint16, idl.uint32, idl.uint64.
StaticBuiltins ==
    { <<N_bool, N_bool>>, <<N_charp, N_string>>, <<N_int, N_int>>,
      <<N_uint8, N_byte>>, <<N_uint16, N_gouint16>>,
      <<N_uint32, N_gouint32>>, <<N_uint64, N_gouint64>> }

\* name in d.keys() and d[name], for a dict kept as a set of <<key, value>>
DictKeys(d) == {kv[1] : kv \in d}
DictGet(d, k) == (CHOOSE kv \in d : kv[1] = k)[2]
DictSet(d, k, v) == {kv \in d : kv[1] # k} \cup {<<k, v>>}

-----------------------------------------------------------------------------
(* xenlight_golang_fmt_name                                                *)

\* What a call does: it returns a value or raises.
Returned(v) == [raised |-> FALSE, value |-> v]
Raised      == [raised |-> TRUE,  value |-> <<>>]

\* words.remove(words[0]) after the test words[0].lower() == 'libxl'
DropPrefix(words) ==
    IF StrLower(words[1]) = N_libxl THEN Tail(words) ELSE words

\* [x.title() for x in ws]
TitleAll(ws) == [i \in 1..Len(ws) |-> StrTitle(ws[i])]

\* The body of xenlight_golang_fmt_name for the builtin table d.
FmtNameIn(d, name, exported) ==
    IF name \in DictKeys(d) THEN Returned(DictGet(d, name))
    ELSE LET words == DropPrefix(StrSplit(name, "_"))
         IN  IF exported THEN Returned(StrJoin(TitleAll(words)))
             ELSE IF words = <<>> THEN Raised   \* words[0]: IndexError
             ELSE Returned(words[1] \o StrJoin(TitleAll(Tail(words))))

\* xenlight_golang_fmt_name as the emitters call it.  Every name they format
\* holds a word besides the prefix, so these calls return.
FmtName(name, exported) == FmtNameIn(builtin_type_names, name, exported).value

-----------------------------------------------------------------------------
(* The type descriptors of the IDL (tools/libxl/idl.py), the generator's   *)
(* input.  A descriptor is a record; kind is its class.                    *)

\* typename None, a field type None, dispose_fn None
NoneName == <<"<None>">>
NoType   == [kind |-> "None"]

\* '{}'.format(v) prints None as 'None'
PyStr(n) == IF n = NoneName THEN <<"N","o","n","e">> ELSE n

Field(name, type) == [name |-> name, type |-> type]

\* idl.Builtin, idl.Number, idl.UInt: json is json_parse_type
Scalar(kind, typename, json) ==
    [kind |-> kind, typename |-> typename, json_parse_type |-> json]
Enumeration(typename, values) ==
    [kind |-> "Enumeration", typename |-> typename, values |-> values,
     json_parse_type |-> "JSON_STRING"]
Struct(typename, fields, init_fn, dispose_fn) ==
    [kind |-> "Struct", typename |-> typename, fields |-> fields,
     init_fn |-> init_fn, dispose_fn |-> dispose_fn,
     json_parse_type |-> "JSON_MAP"]
KeyedUnion(keyvar, fields) ==
    [kind |-> "KeyedUnion", typename |-> NoneName, keyvar |-> keyvar,
     fields |-> fields, json_parse_type |-> "JSON_MAP"]
Array(typename, elem_type, lenvar) ==
    [kind |-> "Array", typename |-> typename, elem_type |-> elem_type,
     lenvar |-> lenvar, json_parse_type |-> "JSON_ARRAY"]
\* idl.Union: an Aggregate that is neither a Struct nor a KeyedUnion
Union(typename, fields) ==
    [kind |-> "Union", typename |-> typename, fields |-> fields,
     json_parse_type |-> "JSON_MAP"]

\* isinstance(ty, idl.Aggregate)
IsAggregate(ty) == ty.kind \in {"Struct", "Union", "KeyedUnion"}

-----------------------------------------------------------------------------
(* What an emitter call does.  s is the text it returns, a sequence of     *)
(* lines; extras and preamble are what it appended to type_extras (or      *)
(* helper_extras) and to cgo_helpers_preamble; raised says that it raised. *)
(* A fragment appended to a list is the sequence of the lines of one       *)
(* string.                                                                 *)

Emit(s)      == [s |-> s, extras |-> <<>>, preamble |-> <<>>, raised |-> FALSE]
EmitNothing  == Emit(<<>>)
EmitRaise    == [s |-> <<>>, extras |-> <<>>, preamble |-> <<>>, raised |-> TRUE]
EmitExtra(e) == [s |-> <<>>, extras |-> <<e>>, preamble |-> <<>>, raised |-> FALSE]
EmitPreamble(p) ==
    [s |-> <<>>, extras |-> <<>>, preamble |-> <<p>>, raised |-> FALSE]

\* a, then b unless a raised: the appends made before a raise stay made
Then(a, b) ==
    IF a.raised THEN a
    ELSE [s |-> a.s \o b.s, extras |-> a.extras \o b.extras,
          preamble |-> a.preamble \o b.preamble, raised |-> b.raised]

\* s = f(...): the text of a call is taken out of the line of emission and
\* appended to a list as one fragment
AsExtra(a) ==
    IF a.raised THEN a
    ELSE [s |-> <<>>, extras |-> a.extras \o <<a.s>>,
          preamble |-> a.preamble, raised |-> FALSE]

-----------------------------------------------------------------------------
(* The declaration pass: xenlight_types.go                                 *)

\* xenlight_golang_define_enum
DefineEnum(ty) ==
    LET typename == IF ty.typename # NoneName
                    THEN FmtName(ty.typename, TRUE) ELSE <<>>
        head == IF ty.typename # NoneName
                THEN << [t |-> "type_int", name |-> typename] >> ELSE <<>>
        consts == [i \in 1..Len(ty.values) |->
                     [t |-> "const", name |-> FmtName(ty.values[i].name, TRUE),
                      typename |-> typename, value |-> ty.values[i].value]]
    IN  Emit(head \o << [t |-> "const_begin"] >> \o consts
                  \o << [t |-> "const_end"] >>)

\* xenlight_golang_union_cgo_preamble
UnionCgoPreamble(ty, name) ==
    EmitPreamble(
        << [t |-> "typedef_begin", name |-> name] >>
        \o [i \in 1..Len(ty.fields) |->
              [t |-> "typedef_member", typename |-> ty.fields[i].type.typename,
               name |-> ty.fields[i].name]]
        \o << [t |-> "typedef_end", name |-> name] >>)

\* '{}_{}_union'.format(structname, keyvar.name), formatted unexported
InterfaceName(structname, keyname) ==
    FmtName(Und(Und(PyStr(structname), keyname), N_union), FALSE)

\* '{}_{}_union_{}'.format(structname, keyvar.name, f.name)
VariantName(structname, keyname, fname) ==
    Und(Und(Und(PyStr(structname), keyname), N_union), fname)

RECURSIVE DefineStruct(_, _, _)
RECURSIVE DefineStructFields(_, _)
RECURSIVE DefineUnion(_, _)
RECURSIVE DefineUnionVariants(_, _, _)

\* xenlight_golang_define_struct
DefineStruct(ty, typename, nested) ==
    LET name == IF typename # NoneName THEN FmtName(typename, TRUE)
                ELSE FmtName(ty.typename, TRUE)
    IN  Then(Emit(<< [t |-> "struct_begin", name |-> name, nested |-> nested] >>),
        Then(DefineStructFields(ty, 1),
             Emit(<< [t |-> "struct_end"] >>)))

\* the loop of lines 112-134, from field i on
DefineStructFields(ty, i) ==
    IF i > Len(ty.fields) THEN EmitNothing
    ELSE LET f == ty.fields[i]
             one ==
               IF f.type.kind = "None" THEN EmitRaise  \* None.typename
               ELSE IF f.type.typename # NoneName THEN
                   IF f.type.kind = "Array"
                   THEN Emit(<< [t |-> "member", name |-> FmtName(f.name, TRUE),
                                 typename |-> FmtName(f.type.elem_type.typename, TRUE),
                                 slice |-> TRUE] >>)
                   ELSE Emit(<< [t |-> "member", name |-> FmtName(f.name, TRUE),
                                 typename |-> FmtName(f.type.typename, TRUE),
                                 slice |-> FALSE] >>)
               ELSE IF f.type.kind = "Struct"
                   THEN DefineStruct(f.type, f.name, TRUE)
               ELSE IF f.type.kind = "KeyedUnion"
                   THEN DefineUnion(f.type, ty.typename)
               ELSE EmitRaise      \* raise Exception('type {} not supported')
         IN  Then(one, DefineStructFields(ty, i + 1))

\* xenlight_golang_define_union
DefineUnion(ty, structname) ==
    LET interface_name == InterfaceName(structname, ty.keyvar.name)
        iface == << [t |-> "interface_begin", name |-> interface_name],
                    [t |-> "interface_method", name |-> interface_name],
                    [t |-> "interface_end"] >>
    IN  Then(EmitExtra(iface),
        Then(DefineUnionVariants(ty, structname, 1),
             Emit(<< [t |-> "member", name |-> FmtName(ty.keyvar.name, TRUE),
                      typename |-> FmtName(ty.keyvar.type.typename, TRUE),
                      slice |-> FALSE],
                     [t |-> "member",
                      name |-> FmtName(Und(ty.keyvar.name, N_union), TRUE),
                      typename |-> interface_name, slice |-> FALSE] >>)))

\* the loop of lines 161-175, from variant i on
DefineUnionVariants(ty, structname, i) ==
    IF i > Len(ty.fields) THEN EmitNothing
    ELSE LET f == ty.fields[i]
             name == VariantName(structname, ty.keyvar.name, f.name)
             one ==
               IF f.type.kind = "None" THEN EmitNothing   \* continue
               ELSE Then(AsExtra(DefineStruct(f.type, name, FALSE)),
                    Then(UnionCgoPreamble(f.type, name),
                         EmitExtra(<< [t |-> "marker_method",
                                       name |-> FmtName(name, TRUE),
                                       interface |->
                                         InterfaceName(structname, ty.keyvar.name)] >>)))
         IN  Then(one, DefineUnionVariants(ty, structname, i + 1))

\* xenlight_golang_type_define
TypeDefine(ty) ==
    IF ty.kind = "Enumeration" THEN DefineEnum(ty)
    ELSE IF IsAggregate(ty) THEN DefineStruct(ty, NoneName, FALSE)
    ELSE Emit(<<>>)

-----------------------------------------------------------------------------
(* The marshaling pass: xenlight_helpers.go.  In a line, go is a path of   *)
(* members below the Go value x, c a path of members below the C value xc, *)
(* tmpc a member of the reinterpreted union storage tmp, and varc a member *)
(* of a C staging variable: a path is the sequence of the names its text   *)
(* joins with '.'.                                                         *)

\* In cgo, C names that conflict with Go keywords can be accessed by
\* prepending an underscore to the name.
CgoName(cfname) == IF cfname \in go_keywords THEN <<"_">> \o cfname ELSE cfname

\* is_castable of lines 287, 407, 505 and 583
IsCastable(type) ==
    \/ type.json_parse_type = "JSON_INTEGER"
    \/ type.kind = "Enumeration"
    \/ FmtName(type.typename, TRUE) \in go_builtin_types

\* the lines 'if err != nil { return err }'
IfErrReturn ==
    [t |-> "if_err", body |-> << [t |-> "return_err", err |-> "err"] >>]

\* the lines 'if err != nil { C.<dispose_fn>(&xc); return xc, err }'
IfErrDisposeReturn(dispose_fn) ==
    [t |-> "if_err", body |-> << [t |-> "dispose", fn |-> dispose_fn],
                                [t |-> "return_err", err |-> "err"] >>]

\* the bound of the array type the C pointer is cast to: 1<<28
ArrayBound == 268435456
ArrayBoundName == <<"1","<","<","2","8">>

\* SliceView with the two-index slice [:n]: the capacity is left at the bound
SliceViewNoCap(cslice, ctypename, cname, golenvar) ==
    [t |-> "slice_view", var |-> cslice, ctype |-> ctypename,
     c |-> <<cname>>, hi |-> golenvar, max |-> ArrayBoundName]

\* lines 444-446: (*[1<<28]C.T)(unsafe.Pointer(xc.name))[:n:n]
SliceView(cslice, ctypename, cname, golenvar) ==
    [t |-> "slice_view", var |-> cslice, ctype |-> ctypename,
     c |-> <<cname>>, hi |-> golenvar, max |-> golenvar]

\* xenlight_golang_array_from_C
ArrayFromC(f) ==
    LET gotypename == FmtName(f.type.elem_type.typename, TRUE)
        goname     == FmtName(f.name, TRUE)
        ctypename  == f.type.elem_type.typename
        cname      == f.name
        cslice     == <<"c">> \o goname
        clenvar    == f.type.lenvar.name
        golenvar   == FmtName(clenvar, FALSE)
        is_enum    == f.type.elem_type.kind = "Enumeration"
        body == IF gotypename \in go_builtin_types \/ is_enum
                THEN << [t |-> "index_store_cast", go |-> <<goname>>,
                         gotype |-> gotypename] >>
                ELSE << [t |-> "var_decl", var |-> <<"e">>, gotype |-> gotypename],
                        [t |-> "call_fromC_elem", var |-> <<"e">>],
                        IfErrReturn,
                        [t |-> "index_store_var", go |-> <<goname>>,
                         var |-> <<"e">>] >>
    IN  Emit(<< [t |-> "len_read", var |-> golenvar, c |-> <<clenvar>>],
                SliceView(cslice, ctypename, cname, golenvar),
                [t |-> "make", go |-> <<goname>>, gotype |-> gotypename,
                 len |-> golenvar],
                [t |-> "range", over |-> cslice, body |-> body] >>)

\* xenlight_golang_union_fields_from_C
UnionFieldsFromC(ty) ==
    [i \in 1..Len(ty.fields) |->
        LET f == ty.fields[i]
            gotypename == FmtName(f.type.typename, TRUE)
            gofname    == FmtName(f.name, TRUE)
            cfname     == f.name
        IN  IF ~IsCastable(f.type)
            THEN [t |-> "tmp_call_fromC", go |-> <<gofname>>, tmpc |-> cfname,
                  body |-> << [t |-> "return_err", err |-> "err"] >>]
            ELSE IF gotypename = N_string
            THEN [t |-> "tmp_gostring", go |-> <<gofname>>, tmpc |-> cfname]
            ELSE [t |-> "tmp_cast_from", go |-> <<gofname>>,
                  gotype |-> gotypename, tmpc |-> cfname]]

\* The payload variants of a union, in the order of its fields.
RECURSIVE PayloadFields(_)
PayloadFields(fields) ==
    IF fields = <<>> THEN <<>>
    ELSE IF Head(fields).type.kind = "None" THEN PayloadFields(Tail(fields))
    ELSE <<Head(fields)>> \o PayloadFields(Tail(fields))

\* xenlight_golang_union_from_C.  cases is a dict; its items are taken in
\* the order of insertion.
UnionFromC(ty, union_name, struct_name) ==
    LET keyname     == ty.keyvar.name
        gokeyname   == FmtName(keyname, TRUE)
        keytype     == ty.keyvar.type.typename
        gokeytype   == FmtName(keytype, TRUE)
        cgo_keyname == CgoName(keyname)
        payload     == PayloadFields(ty.fields)
        Val(f)      == FmtName(Und(keytype, f.name), TRUE)
        field_name  == FmtName(Und(keyname, N_union), TRUE)
        Func(f) ==
            LET typename   == VariantName(struct_name, keyname, f.name)
                gotypename == FmtName(typename, TRUE)
            IN  << [t |-> "func_fromC", gotype |-> gotypename,
                    ctype |-> PyStr(struct_name)],
                   [t |-> "if_key_ne", gotype |-> gokeytype,
                    c |-> <<cgo_keyname>>, val |-> Val(f),
                    body |-> << [t |-> "return_err",
                                 err |-> "expected union key"] >>],
                   [t |-> "tmp_reinterpret", ctype |-> typename,
                    c |-> <<union_name>>] >>
                \o UnionFieldsFromC(f.type)
                \o << [t |-> "return_nil"], [t |-> "func_end"] >>
        Case(f) ==
            LET gotype == FmtName(VariantName(struct_name, keyname, f.name), TRUE)
                goname == FmtName(Und(keyname, f.name), FALSE)
            IN  [val |-> Val(f),
                 body |-> << [t |-> "var_decl", var |-> goname, gotype |-> gotype],
                             [t |-> "call_variant_fromC", var |-> goname,
                              gotype |-> gotype],
                             IfErrReturn,
                             [t |-> "assign_from_var", go |-> <<field_name>>,
                              var |-> goname] >>]
    IN  [s |-> << [t |-> "cast_from", go |-> <<gokeyname>>,
                   gotype |-> gokeytype, c |-> <<cgo_keyname>>],
                  [t |-> "switch", on |-> <<gokeyname>>,
                   cases |-> [i \in 1..Len(payload) |-> Case(payload[i])],
                   default |-> << [t |-> "return_err",
                                   err |-> "invalid union key"] >>] >>,
         extras |-> [i \in 1..Len(payload) |-> Func(payload[i])],
         preamble |-> <<>>, raised |-> FALSE]

RECURSIVE DefineFromC(_, _, _)
RECURSIVE DefineFromCFields(_, _, _, _)

\* xenlight_golang_define_from_C
DefineFromC(ty, typename, nested) ==
    LET name == IF typename # NoneName THEN typename ELSE ty.typename
    IN  Then(Emit(IF nested THEN <<>>
                  ELSE << [t |-> "func_fromC", gotype |-> FmtName(name, TRUE),
                           ctype |-> name] >>),
        Then(DefineFromCFields(ty, typename, nested, 1),
             Emit(IF nested THEN <<>>
                  ELSE << [t |-> "return_nil"], [t |-> "func_end"] >>)))

\* the loop of lines 260-317, from field i on
DefineFromCFields(ty, typename, nested, i) ==
    IF i > Len(ty.fields) THEN EmitNothing
    ELSE LET f == ty.fields[i]
             gotypename == FmtName(f.type.typename, TRUE)
             gofname    == FmtName(f.name, TRUE)
             cfname     == CgoName(f.name)
             inner      == nested /\ typename # NoneName
             goname     == IF inner THEN <<FmtName(typename, TRUE), gofname>>
                           ELSE <<gofname>>
             cname      == IF inner THEN <<typename, cfname>> ELSE <<cfname>>
             varname    == FmtName(Und(f.type.typename, f.name), FALSE)
             one ==
               IF f.type.kind = "None" THEN EmitRaise  \* None.typename
               ELSE IF f.type.typename # NoneName THEN
                   IF f.type.kind = "Array" THEN ArrayFromC(f)
                   ELSE IF IsCastable(f.type) THEN
                       IF gotypename = N_string
                       THEN Emit(<< [t |-> "gostring", go |-> goname,
                                     c |-> cname] >>)
                       ELSE Emit(<< [t |-> "cast_from", go |-> goname,
                                     gotype |-> gotypename, c |-> cname] >>)
                   ELSE Emit(<< [t |-> "var_decl", var |-> varname,
                                 gotype |-> gotypename],
                                [t |-> "call_fromC", var |-> varname,
                                 c |-> cname],
                                IfErrReturn,
                                [t |-> "assign_from_var", go |-> goname,
                                 var |-> varname] >>)
               ELSE IF f.type.kind = "Struct"
                   THEN DefineFromC(f.type, f.name, TRUE)
               ELSE IF f.type.kind = "KeyedUnion"
                   THEN UnionFromC(f.type, f.name, ty.typename)
               ELSE EmitRaise      \* raise Exception('type {} not supported')
         IN  Then(one, DefineFromCFields(ty, typename, nested, i + 1))

\* TypeCheck without the test of ok: the assertion is made and not checked
TypeCheckUnguarded(field_name, gotype, keyname, dispose_fn) ==
    << [t |-> "type_assert", go |-> <<field_name>>, gotype |-> gotype] >>

\* lines 571-575: the type assertion on the union member and its guard
TypeCheck(field_name, gotype, keyname, dispose_fn) ==
    << [t |-> "type_assert", go |-> <<field_name>>, gotype |-> gotype],
       [t |-> "if_not_ok",
        body |-> << [t |-> "dispose", fn |-> dispose_fn],
                    [t |-> "return_err",
                     err |-> "wrong type for union key"] >>] >>

\* xenlight_golang_union_to_C
UnionToC(ty, union_name, struct_name, dispose_fn) ==
    LET keyname     == ty.keyvar.name
        gokeyname   == FmtName(keyname, TRUE)
        keytype     == ty.keyvar.type.typename
        cgo_keyname == CgoName(keyname)
        payload     == PayloadFields(ty.fields)
        field_name  == FmtName(Und(keyname, N_union), TRUE)
        Fields(f) ==
            [j \in 1..Len(f.type.fields) |->
                LET uf == f.type.fields[j]
                    gotypename == FmtName(uf.type.typename, TRUE)
                    gofname    == FmtName(uf.name, TRUE)
                IN  IF ~IsCastable(uf.type)
                    THEN [t |-> "var_call_toC", var |-> f.name, varc |-> uf.name,
                          go |-> <<gofname>>,
                          body |-> << [t |-> "dispose", fn |-> dispose_fn],
                                      [t |-> "return_err", err |-> "err"] >>]
                    ELSE IF gotypename = N_string
                    THEN [t |-> "var_cstring", var |-> f.name, varc |-> uf.name,
                          go |-> <<gofname>>]
                    ELSE [t |-> "var_cast_to", var |-> f.name, varc |-> uf.name,
                          ctype |-> uf.type.typename, go |-> <<gofname>>]]
        Case(f) ==
            LET cgotype == VariantName(struct_name, keyname, f.name)
            IN  [val |-> FmtName(Und(keytype, f.name), TRUE),
                 body |-> TypeCheck(field_name, FmtName(cgotype, TRUE),
                                    keyname, dispose_fn)
                         \o << [t |-> "c_var_decl", var |-> f.name,
                               ctype |-> cgotype] >>
                         \o Fields(f)
                         \o << [t |-> "gobytes", var |-> f.name,
                                ctype |-> cgotype],
                               [t |-> "copy", c |-> <<union_name>>,
                                var |-> f.name] >>]
    IN  Emit(<< [t |-> "cast_to", c |-> <<cgo_keyname>>, ctype |-> keytype,
                 go |-> <<gokeyname>>],
                [t |-> "switch", on |-> <<gokeyname>>,
                 cases |-> [i \in 1..Len(payload) |-> Case(payload[i])],
                 default |-> << [t |-> "return_err",
                                 err |-> "invalid union key"] >>] >>)

RECURSIVE DefineToC(_, _, _)
RECURSIVE DefineToCFields(_, _, _, _)

\* xenlight_golang_define_to_C
DefineToC(ty, typename, nested) ==
    LET name == IF typename # NoneName THEN typename ELSE ty.typename
    IN  Then(Emit(IF nested THEN <<>>
                  ELSE << [t |-> "func_toC", gotype |-> FmtName(name, TRUE),
                           ctype |-> name],
                          [t |-> "init", fn |-> ty.init_fn] >>),
        Then(DefineToCFields(ty, typename, nested, 1),
             Emit(IF nested THEN <<>>
                  ELSE << [t |-> "return_nil"], [t |-> "func_end"] >>)))

\* the loop of lines 479-531, from field i on
DefineToCFields(ty, typename, nested, i) ==
    IF i > Len(ty.fields) THEN EmitNothing
    ELSE LET f == ty.fields[i]
             gotypename == FmtName(f.type.typename, TRUE)
             ctypename  == f.type.typename
             gofname    == FmtName(f.name, TRUE)
             cfname     == CgoName(f.name)
             inner      == nested /\ typename # NoneName
             goname     == IF inner THEN <<FmtName(typename, TRUE), gofname>>
                           ELSE <<gofname>>
             cname      == IF inner THEN <<typename, cfname>> ELSE <<cfname>>
             one ==
               IF f.type.kind = "None" THEN EmitRaise  \* None.typename
               ELSE IF f.type.typename # NoneName THEN
                   IF f.type.kind = "Array" THEN EmitNothing   \* TODO; continue
                   ELSE IF IsCastable(f.type) THEN
                       IF gotypename = N_string
                       THEN Emit(<< [t |-> "cstring", c |-> cname,
                                     go |-> goname] >>)
                       ELSE Emit(<< [t |-> "cast_to", c |-> cname,
                                     ctype |-> ctypename, go |-> goname] >>)
                   ELSE Emit(<< [t |-> "call_toC", c |-> cname, go |-> goname],
                                IfErrDisposeReturn(ty.dispose_fn) >>)
               ELSE IF f.type.kind = "Struct"
                   THEN DefineToC(f.type, f.name, TRUE)
               ELSE IF f.type.kind = "KeyedUnion"
                   THEN UnionToC(f.type, f.name, ty.typename, ty.dispose_fn)
               ELSE EmitRaise      \* raise Exception('type {} not supported')
         IN  Then(one, DefineToCFields(ty, typename, nested, i + 1))

-----------------------------------------------------------------------------
(* The schemas: what idl.parse hands to __main__.                          *)

T_uint8   == Scalar("UInt", N_uint8,  "JSON_INTEGER")
T_uint16  == Scalar("UInt", N_uint16, "JSON_INTEGER")
T_uint32  == Scalar("UInt", N_uint32, "JSON_INTEGER")
T_int     == Scalar("Number", N_int,  "JSON_INTEGER")
T_string  == Scalar("Builtin", N_charp, "JSON_STRING")
T_defbool == Scalar("Builtin", N_libxl_defbool, "JSON_STRING")
T_uuid    == Scalar("Builtin", N_libxl_uuid, "JSON_STRING")

\* libxl_kind = Enumeration("kind", [(1, "HVM"), (2, "PV"), (3, "NONE")])
T_kind ==
    Enumeration(N_libxl_kind, << [name |-> N_KIND_HVM,  value |-> 1],
                                 [name |-> N_KIND_PV,   value |-> 2],
                                 [name |-> N_KIND_NONE, value |-> 3] >>)

\* An anonymous Struct takes no init_fn and no dispose_fn.
Anon(fields) == Struct(NoneName, fields, NoneName, NoneName)
Named(typename, fields) ==
    Struct(typename, fields, typename \o <<"_","i","n","i","t">>, typename \o <<"_","d","i","s","p","o","s","e">>)

\* a struct of castable fields, one of them in an inline struct
T_plain ==
    Named(N_libxl_plain,
          << Field(N_x, T_uint32), Field(N_name, T_string),
             Field(N_type, T_kind),
             Field(N_inner, Anon(<< Field(N_func, T_uint8),
                                    Field(N_b, T_defbool) >>)) >>)

\* a struct with a keyed union: two variants with a payload, one without
T_union ==
    KeyedUnion(Field(N_type, T_kind),
               << Field(N_hvm, Anon(<< Field(N_type, T_uint32),
                                       Field(N_path, T_string),
                                       Field(N_b, T_defbool) >>)),
                  Field(N_none, NoType),
                  Field(N_pv, Anon(<< Field(N_x, T_uint16) >>)) >>)
T_dom ==
    Named(N_libxl_dom, << Field(N_b, T_defbool), Field(N_u, T_union) >>)

\* a struct with an array; the length variable belongs to the Array
T_arr ==
    Named(N_libxl_arr,
          << Field(N_x, T_uint32),
             Field(N_items, Array(N_uint16p, T_uint16,
                                  Field(N_n_items, T_int))) >>)

\* a struct of castable fields only, one of them in an inline struct
T_pure ==
    Named(N_libxl_pure,
          << Field(N_x, T_uint8), Field(N_name, T_string),
             Field(N_type, T_kind),
             Field(N_inner, Anon(<< Field(N_func, T_uint16) >>)) >>)

\* a struct of castable fields only; the inline struct inside its inline
\* struct has the name of a member of the top level
T_deep ==
    Named(N_libxl_deep,
          << Field(N_inner, Anon(<< Field(N_z, T_uint8) >>)),
             Field(N_outer,
                   Anon(<< Field(N_inner, Anon(<< Field(N_z, T_uint8) >>)) >>)) >>)

\* a struct with a keyed union none of whose members is named as a keyword
T_vm ==
    Named(N_libxl_vm,
          << Field(N_b, T_defbool),
             Field(N_u,
                   KeyedUnion(Field(N_type, T_kind),
                       << Field(N_hvm, Anon(<< Field(N_path, T_string),
                                               Field(N_b, T_defbool) >>)),
                          Field(N_none, NoType),
                          Field(N_pv, Anon(<< Field(N_x, T_uint16) >>)) >>)) >>)

\* a struct with an array of elements that have a fromC of their own
T_list ==
    Named(N_libxl_list,
          << Field(N_items, Array(N_libxl_defbool \o <<" ", "*">>, T_defbool,
                                  Field(N_n_items, T_int))) >>)

\* a struct with a field of an anonymous idl.Union, which no emitter supports
T_bad ==
    Named(N_libxl_bad,
          << Field(N_x, T_uint32),
             Field(N_w, Union(NoneName, << Field(N_y, T_uint8) >>)) >>)

\* a top-level descriptor that is neither an Enumeration nor an Aggregate
T_num == Scalar("Number", N_libxl_num, "JSON_INTEGER")

TopLevelTypes == {T_kind, T_plain, T_dom, T_arr, T_bad, T_num}

\* the longest list of top-level types idl.parse returns here
MaxTypes == 2

RECURSIVE SeqsUpTo(_, _)
SeqsUpTo(S, n) ==
    IF n = 0 THEN {<<>>}
    ELSE LET shorter == SeqsUpTo(S, n - 1)
         IN  shorter \cup {Append(q, e) : q \in shorter, e \in S}

Schemas == SeqsUpTo(TopLevelTypes, MaxTypes) \ {<<>>}

\* the builtins libxl_types.idl declares, in the orders idl.parse may list them
BuiltinLists == { <<>>, <<T_defbool>>, <<T_defbool, T_uuid>>,
                  <<T_uuid, T_defbool>> }

-----------------------------------------------------------------------------
(* The generated code at run time: the values it converts.  A Go value of  *)
(* a generated struct type and a C value of the libxl struct are functions *)
(* from member paths to values.  cgo names a C member that is a Go keyword *)
(* with an underscore before it.                                           *)

NUL == "NUL"

\* C.CString: a copy of the bytes with a terminating NUL
CString(str) == str \o <<NUL>>

\* C.GoString: the bytes before the first NUL; the NULL pointer, kept as the
\* empty sequence, gives ""
GoString(p) ==
    LET at == {i \in 1..Len(p) : p[i] = NUL}
    IN  IF at = {} THEN p
        ELSE SubSeq(p, 1, (CHOOSE i \in at : \A k \in at : i <= k) - 1)

\* the widths below 31 bits of the integer types; a cast to a wider type
\* changes no value the model holds
Width(typename) ==
    IF typename \in {N_uint8, N_byte} THEN 8
    ELSE IF typename \in {N_uint16, N_gouint16} THEN 16
    ELSE 0

\* the conversion T(v) between integer types
Cast(typename, v) ==
    IF Width(typename) > 0 THEN v % (2 ^ Width(typename)) ELSE v

\* a value of a type the generator does not look into (libxl_defbool, ...),
\* and what its own toC and fromC make of it
GoOpaque(v)   == [opaque |-> v]
COpaque(v)    == [c_opaque |-> v]
OpaqueToC(g)   == COpaque(g.opaque)
OpaqueFromC(c) == GoOpaque(c.c_opaque)

\* the nil interface value, and the zeroed bytes of a union's storage
NilIface  == [gotype |-> <<"<nil>">>, fields |-> <<>>]
ZeroBytes == [ctype |-> <<"<zero>">>, fields |-> <<>>]

\* the sample values of a castable member: several ("all"), one ("one"),
\* or the zero value of its Go type ("zero")
LeafValues(type, mode) ==
    IF FmtName(type.typename, TRUE) = N_string
    THEN CASE mode = "all" -> {<<>>, <<"a">>}
           [] mode = "one" -> {<<"a">>}
           [] OTHER        -> {<<>>}
    ELSE IF type.kind = "Enumeration"
    THEN CASE mode = "all" -> {type.values[i].value : i \in 1..Len(type.values)}
           [] mode = "one" -> {type.values[1].value}
           [] OTHER        -> {0}
    ELSE CASE mode = "all" -> {0, 5}
           [] mode = "one" -> {5}
           [] OTHER        -> {0}

\* the discriminant values tried: those of the enumeration, and one it
\* does not declare
KeyValues(u) ==
    LET declared == {u.keyvar.type.values[i].value :
                       i \in 1..Len(u.keyvar.type.values)}
    IN  declared
        \cup {1 + CHOOSE v \in declared : \A w \in declared : w <= v}

\* f @@ g for every f of F and g of G
Merge(F, G) == {f @@ g : f \in F, g \in G}

RECURSIVE GoValues(_, _, _)
RECURSIVE GoFieldValues(_, _, _, _)
RECURSIVE VariantValues(_, _, _, _)

\* The Go values of the struct type xenlight_golang_define_struct declares
\* for ty, with the member paths below prefix.
GoValues(ty, prefix, mode) == GoFieldValues(ty, prefix, mode, 1)

GoFieldValues(ty, prefix, mode, i) ==
    IF i > Len(ty.fields) THEN {<<>>}
    ELSE LET f == ty.fields[i]
             at(name) == prefix \o <<FmtName(name, TRUE)>>
             one ==
               IF f.type.typename # NoneName THEN
                   IF f.type.kind = "Array" THEN {at(f.name) :> <<>>}
                   ELSE IF IsCastable(f.type)
                   THEN {at(f.name) :> v : v \in LeafValues(f.type, mode)}
                   ELSE {at(f.name) :> GoOpaque(IF mode = "zero" THEN 0 ELSE 1)}
               ELSE IF f.type.kind = "Struct"
                   THEN GoValues(f.type, at(f.name), mode)
               ELSE \* KeyedUnion: the discriminant and the interface member
                   {at(f.type.keyvar.name) :> k
                      @@ at(Und(f.type.keyvar.name, N_union)) :> m :
                        k \in IF mode = "zero" THEN {0} ELSE KeyValues(f.type),
                        m \in IF mode = "zero" THEN {NilIface}
                              ELSE {NilIface}
                                   \cup VariantValues(f.type, ty.typename, 1, "one")}
         IN  Merge(one, GoFieldValues(ty, prefix, mode, i + 1))

\* one value of each variant struct of a union
VariantValues(u, structname, i, mode) ==
    IF i > Len(u.fields) THEN {}
    ELSE (IF u.fields[i].type.kind = "None" THEN {}
          ELSE {[gotype |-> FmtName(VariantName(structname, u.keyvar.name,
                                                u.fields[i].name), TRUE),
                 fields |-> g] : g \in GoValues(u.fields[i].type, <<>>, mode)})
         \cup VariantValues(u, structname, i + 1, mode)

\* the zero value of the Go struct of ty: what var x T declares
GoZero(ty) == CHOOSE v \in GoValues(ty, <<>>, "zero") : TRUE

RECURSIVE CZero(_, _)
RECURSIVE CZeroFields(_, _, _)

\* The C value of the libxl struct of ty after its init function: the
\* members the IDL gives the struct, zeroed.
CZero(ty, prefix) == CZeroFields(ty, prefix, 1)

CZeroFields(ty, prefix, i) ==
    IF i > Len(ty.fields) THEN <<>>
    ELSE LET f == ty.fields[i]
             at(name) == prefix \o <<CgoName(name)>>
             one ==
               IF f.type.typename # NoneName THEN
                   IF f.type.kind = "Array"
                   THEN at(f.name) :> <<>> @@ at(f.type.lenvar.name) :> 0
                   ELSE IF ~IsCastable(f.type) THEN at(f.name) :> COpaque(0)
                   ELSE IF FmtName(f.type.typename, TRUE) = N_string
                   THEN at(f.name) :> <<>>
                   ELSE at(f.name) :> 0
               ELSE IF f.type.kind = "Struct" THEN CZero(f.type, at(f.name))
               ELSE at(f.type.keyvar.name) :> 0 @@ at(f.name) :> ZeroBytes
         IN  one @@ CZeroFields(ty, prefix, i + 1)

\* the most elements of the storage behind an array member
MaxCap == 2

\* the C values handed to a decode function that no encode produced: the
\* array members point to storage of some capacity, and the length member
\* counts the elements of it in use
\* line 451: the elements of an array are converted by a cast
ElemCastable(type) ==
    \/ FmtName(type.typename, TRUE) \in go_builtin_types
    \/ type.kind = "Enumeration"

CArrayInputs(ty) ==
    LET arrays == {i \in 1..Len(ty.fields) : ty.fields[i].type.kind = "Array"}
    IN  IF arrays = {} THEN {<<>>}
        ELSE LET f == ty.fields[CHOOSE i \in arrays : TRUE]
                 elems == IF ElemCastable(f.type.elem_type) THEN {3, 7}
                          ELSE {COpaque(1)}
             IN  {<<CgoName(f.name)>> :> store
                    @@ <<CgoName(f.type.lenvar.name)>> :> n :
                      store \in SeqsUpTo(elems, MaxCap),
                      n \in -1..MaxCap}

\* the members of the C struct of a variant, filled in
RECURSIVE CVariantFields(_, _)
CVariantFields(fields, i) ==
    IF i > Len(fields) THEN <<>>
    ELSE LET f == fields[i]
         IN  (f.name :> (IF ~IsCastable(f.type) THEN COpaque(1)
                         ELSE IF FmtName(f.type.typename, TRUE) = N_string
                         THEN CString(<<"a">>)
                         ELSE 5))
             @@ CVariantFields(fields, i + 1)

\* the discriminant and the storage of a union as libxl fills them in: the
\* storage holds the struct of the variant the discriminant names, and
\* stays zeroed when that variant has no struct or the discriminant names
\* none
CUnionInputs(ty) ==
    LET unions == {i \in 1..Len(ty.fields) :
                     ty.fields[i].type.kind = "KeyedUnion"}
    IN  IF unions = {} THEN {<<>>}
        ELSE LET f  == ty.fields[CHOOSE i \in unions : TRUE]
                 u  == f.type
                 kt == u.keyvar.type
                 Selects(k) ==
                   {j \in 1..Len(u.fields) :
                      /\ u.fields[j].type.kind = "Struct"
                      /\ \E v \in 1..Len(kt.values) :
                           /\ kt.values[v].value = k
                           /\ FmtName(kt.values[v].name, TRUE)
                                = FmtName(Und(kt.typename, u.fields[j].name), TRUE)}
                 Storage(k) ==
                   IF Selects(k) = {} THEN ZeroBytes
                   ELSE LET v == u.fields[CHOOSE j \in Selects(k) : TRUE]
                        IN  [ctype |-> VariantName(ty.typename, u.keyvar.name,
                                                   v.name),
                             fields |-> CVariantFields(v.type.fields, 1)]
             IN  {<<CgoName(u.keyvar.name)>> :> k
                    @@ <<CgoName(f.name)>> :> Storage(k) : k \in KeyValues(u)}

CInputs(ty) ==
    {(a @@ u) @@ CZero(ty, <<>>) : a \in CArrayInputs(ty), u \in CUnionInputs(ty)}

-----------------------------------------------------------------------------
(* The generated code at run time: the statements.  A run is a record: its *)
(* status is "run" until a return; x and xc are the Go and the C value;    *)
(* vars holds the Go locals, cvars the C staging variables, tmp the value  *)
(* behind tmp; events lists the init, dispose and copy calls; writes lists *)
(* the indexes stored to.                                                  *)

Start(x, xc) ==
    [status |-> "run", x |-> x, xc |-> xc, vars |-> <<>>, cvars |-> <<>>,
     tmp |-> <<>>, err |-> FALSE, ok |-> TRUE, errmsg |-> "",
     events |-> <<>>, writes |-> <<>>]

\* the zero values of the variant structs of the unions of a struct
VariantZeros(ty) ==
    UNION {VariantValues(ty.fields[i].type, ty.typename, 1, "zero") :
             i \in {k \in 1..Len(ty.fields) :
                      ty.fields[k].type.kind = "KeyedUnion"}}

\* the environment of a run: funcs are the functions written after the one
\* called, consts the enum constants in scope, zeros the zero values of the
\* variant structs; fails, tfails and cfails name the members whose own toC
\* or fromC fails (below x, below tmp, below xc), efails the indexes of the
\* array elements whose fromC fails; partial says whether a fromC that
\* fails has written to its receiver before it fails
Env(ty, funcs, consts, fails, tfails, cfails, efails, partial) ==
    [funcs |-> funcs, consts |-> consts, zeros |-> VariantZeros(ty),
     fails |-> fails, tfails |-> tfails, cfails |-> cfails,
     efails |-> efails, partial |-> partial]

\* what a fromC that failed half way has made of its receiver
PartlyWritten == GoOpaque(-1)

Stop(st, why) == [st EXCEPT !.status = why]
Event(st, ev, arg) ==
    [st EXCEPT !.events = Append(@, [ev |-> ev, arg |-> arg])]
SetVar(st, var, v) == [st EXCEPT !.vars = (var :> v) @@ @]

\* a statement that names a member the type does not have, or a keyword
\* where a member name must stand, does not compile
HasGo(st, p) == p \in DOMAIN st.x
HasC(st, p)  == p \in DOMAIN st.xc

\* the zero value of the variant struct named gotype
VariantZero(env, gotype) ==
    LET hit == {v \in env.zeros : v.gotype = gotype}
    IN  IF hit = {} THEN <<>> ELSE (CHOOSE v \in hit : TRUE).fields

RECURSIVE Exec(_, _, _)
RECURSIVE Step(_, _, _)
RECURSIVE ExecRange(_, _, _, _)

\* the statements of lines, in order, until one returns
Exec(lines, st, env) ==
    IF lines = <<>> \/ st.status # "run" THEN st
    ELSE Exec(Tail(lines), Step(Head(lines), st, env), env)

\* for i, v := range <over> { body }, from index i on
ExecRange(l, st, env, i) ==
    LET elems == st.vars[l.over].elems
    IN  IF i >= Len(elems) \/ st.status # "run" THEN st
        ELSE ExecRange(l,
                 Exec(l.body,
                      SetVar(SetVar(st, <<"i">>, i), <<"v">>, elems[i + 1]),
                      env),
                 env, i + 1)

\* one statement
Step(l, st, env) ==
    CASE l.t \in {"func_toC", "func_fromC", "func_end"} -> st
      [] l.t = "init"    -> Event(st, "init", l.fn)
      [] l.t = "dispose" ->
            IF l.fn = NoneName THEN Stop(st, "no_compile")   \* C.None(&xc)
            ELSE Event(st, "dispose", l.fn)
      [] l.t = "return_nil" -> Stop(st, "ok")
      [] l.t = "return_err" ->
            [st EXCEPT !.status = "err",
                       !.errmsg = IF l.err = "err" THEN st.errmsg ELSE l.err]
      [] l.t = "if_err" -> IF st.err THEN Exec(l.body, st, env) ELSE st
      [] l.t = "if_not_ok" -> IF ~st.ok THEN Exec(l.body, st, env) ELSE st
      \* encode
      [] l.t = "cast_to" ->
            IF HasGo(st, l.go) /\ HasC(st, l.c)
            THEN [st EXCEPT !.xc[l.c] = Cast(l.ctype, st.x[l.go])]
            ELSE Stop(st, "no_compile")
      [] l.t = "cstring" ->
            IF HasGo(st, l.go) /\ HasC(st, l.c)
            THEN [st EXCEPT !.xc[l.c] = CString(st.x[l.go])]
            ELSE Stop(st, "no_compile")
      [] l.t = "call_toC" ->
            IF ~(HasGo(st, l.go) /\ HasC(st, l.c)) THEN Stop(st, "no_compile")
            ELSE IF l.go \in env.fails
            THEN [st EXCEPT !.err = TRUE, !.errmsg = "nested toC failed"]
            ELSE [st EXCEPT !.err = FALSE,
                            !.xc[l.c] = OpaqueToC(st.x[l.go])]
      [] l.t = "switch" ->
            IF ~HasGo(st, l.on)
               \/ \E i \in 1..Len(l.cases) : l.cases[i].val \notin DictKeys(env.consts)
            THEN Stop(st, "no_compile")
            ELSE LET hits == {i \in 1..Len(l.cases) :
                                DictGet(env.consts, l.cases[i].val) = st.x[l.on]}
                 IN  IF hits = {} THEN Exec(l.default, st, env)
                     ELSE Exec(l.cases[CHOOSE i \in hits :
                                         \A j \in hits : i <= j].body, st, env)
      [] l.t = "type_assert" ->
            IF ~HasGo(st, l.go) THEN Stop(st, "no_compile")
            ELSE IF st.x[l.go].gotype = l.gotype
            THEN [st EXCEPT !.ok = TRUE, !.tmp = st.x[l.go].fields]
            ELSE [st EXCEPT !.ok = FALSE, !.tmp = VariantZero(env, l.gotype)]
      [] l.t = "c_var_decl" -> [st EXCEPT !.cvars = (l.var :> <<>>) @@ @]
      [] l.t = "var_cast_to" ->
            IF l.go \notin DOMAIN st.tmp \/ l.varc \in go_keywords
            THEN Stop(st, "no_compile")
            ELSE [st EXCEPT !.cvars[l.var] =
                     (l.varc :> Cast(l.ctype, st.tmp[l.go])) @@ @]
      [] l.t = "var_cstring" ->
            IF l.go \notin DOMAIN st.tmp \/ l.varc \in go_keywords
            THEN Stop(st, "no_compile")
            ELSE [st EXCEPT !.cvars[l.var] =
                     (l.varc :> CString(st.tmp[l.go])) @@ @]
      [] l.t = "var_call_toC" ->
            IF l.go \notin DOMAIN st.tmp \/ l.varc \in go_keywords
            THEN Stop(st, "no_compile")
            ELSE IF l.go \in env.tfails
            THEN Exec(l.body,
                      [st EXCEPT !.err = TRUE, !.errmsg = "nested toC failed"],
                      env)
            ELSE [st EXCEPT !.err = FALSE,
                            !.cvars[l.var] =
                                (l.varc :> OpaqueToC(st.tmp[l.go])) @@ @]
      [] l.t = "gobytes" ->
            SetVar(st, l.var \o <<"B","y","t","e","s">>,
                   [ctype |-> l.ctype, fields |-> st.cvars[l.var]])
      [] l.t = "copy" ->
            IF ~HasC(st, l.c) THEN Stop(st, "no_compile")
            ELSE Event([st EXCEPT !.xc[l.c] =
                           st.vars[l.var \o <<"B","y","t","e","s">>]],
                       "copy", l.c[1])
      \* decode
      [] l.t = "cast_from" ->
            IF HasGo(st, l.go) /\ HasC(st, l.c)
            THEN [st EXCEPT !.x[l.go] = Cast(l.gotype, st.xc[l.c])]
            ELSE Stop(st, "no_compile")
      [] l.t = "gostring" ->
            IF HasGo(st, l.go) /\ HasC(st, l.c)
            THEN [st EXCEPT !.x[l.go] = GoString(st.xc[l.c])]
            ELSE Stop(st, "no_compile")
      [] l.t = "var_decl" -> SetVar(st, l.var, GoOpaque(0))
      [] l.t = "call_fromC" ->
            IF ~HasC(st, l.c) THEN Stop(st, "no_compile")
            ELSE IF l.c \in env.cfails
            THEN [st EXCEPT !.err = TRUE, !.errmsg = "nested fromC failed",
                            !.vars = IF env.partial
                                     THEN (l.var :> PartlyWritten) @@ @ ELSE @]
            ELSE SetVar([st EXCEPT !.err = FALSE], l.var,
                        OpaqueFromC(st.xc[l.c]))
      [] l.t = "assign_from_var" ->
            IF HasGo(st, l.go) THEN [st EXCEPT !.x[l.go] = st.vars[l.var]]
            ELSE Stop(st, "no_compile")
      [] l.t = "len_read" ->
            IF HasC(st, l.c) THEN SetVar(st, l.var, st.xc[l.c])
            ELSE Stop(st, "no_compile")
      [] l.t = "slice_view" ->
            IF ~HasC(st, l.c) THEN Stop(st, "no_compile")
            ELSE LET hi  == st.vars[l.hi]
                     cap == IF l.max \in DOMAIN st.vars THEN st.vars[l.max]
                            ELSE ArrayBound
                 IN  IF hi < 0 \/ hi > cap \/ cap > ArrayBound
                     THEN Stop(st, "panic")
                     ELSE IF hi > Len(st.xc[l.c])
                     THEN Stop(st, "out_of_storage")  \* reads past the storage
                     ELSE SetVar(st, l.var,
                                 [elems |-> SubSeq(st.xc[l.c], 1, hi),
                                  cap |-> cap])
      [] l.t = "make" ->
            IF ~HasGo(st, l.go) THEN Stop(st, "no_compile")
            ELSE IF st.vars[l.len] < 0 THEN Stop(st, "panic")
            ELSE [st EXCEPT !.x[l.go] = [i \in 1..st.vars[l.len] |-> 0]]
      [] l.t = "range" -> ExecRange(l, st, env, 0)
      [] l.t = "index_store_cast" ->
            IF st.vars[<<"i">>] >= Len(st.x[l.go]) THEN Stop(st, "panic")
            ELSE [st EXCEPT !.x[l.go][st.vars[<<"i">>] + 1] =
                                Cast(l.gotype, st.vars[<<"v">>]),
                            !.writes = Append(@, st.vars[<<"i">>])]
      [] l.t = "call_fromC_elem" ->
            IF st.vars[<<"i">>] \in env.efails
            THEN [st EXCEPT !.err = TRUE, !.errmsg = "nested fromC failed",
                            !.vars = IF env.partial
                                     THEN (l.var :> PartlyWritten) @@ @ ELSE @]
            ELSE SetVar([st EXCEPT !.err = FALSE], l.var,
                        OpaqueFromC(st.vars[<<"v">>]))
      [] l.t = "index_store_var" ->
            IF st.vars[<<"i">>] >= Len(st.x[l.go]) THEN Stop(st, "panic")
            ELSE [st EXCEPT !.x[l.go][st.vars[<<"i">>] + 1] = st.vars[l.var],
                            !.writes = Append(@, st.vars[<<"i">>])]
      [] l.t = "call_variant_fromC" ->
            LET hits == {i \in 1..Len(env.funcs) :
                           env.funcs[i][1].gotype = l.gotype}
                body == env.funcs[CHOOSE i \in hits : TRUE]
                sub  == Exec(body,
                             [st EXCEPT !.x = VariantZero(env, l.gotype)], env)
                val  == [gotype |-> l.gotype, fields |-> sub.x]
            IN  IF hits = {} THEN Stop(st, "no_compile")
                ELSE IF sub.status = "ok"
                THEN SetVar([st EXCEPT !.err = FALSE], l.var, val)
                ELSE IF sub.status = "err"
                THEN SetVar([st EXCEPT !.err = TRUE, !.errmsg = sub.errmsg],
                            l.var, val)
                ELSE Stop(st, sub.status)
      [] l.t = "if_key_ne" ->
            IF ~HasC(st, l.c) \/ l.val \notin DictKeys(env.consts)
            THEN Stop(st, "no_compile")
            ELSE IF Cast(l.gotype, st.xc[l.c]) # DictGet(env.consts, l.val)
            THEN Exec(l.body, st, env)
            ELSE st
      [] l.t = "tmp_reinterpret" ->
            IF ~HasC(st, l.c) THEN Stop(st, "no_compile")
            ELSE IF st.xc[l.c].ctype # l.ctype THEN Stop(st, "other_bytes")
            ELSE [st EXCEPT !.tmp = st.xc[l.c].fields]
      [] l.t = "tmp_cast_from" ->
            IF ~HasGo(st, l.go) \/ l.tmpc \notin DOMAIN st.tmp
            THEN Stop(st, "no_compile")
            ELSE [st EXCEPT !.x[l.go] = Cast(l.gotype, st.tmp[l.tmpc])]
      [] l.t = "tmp_gostring" ->
            IF ~HasGo(st, l.go) \/ l.tmpc \notin DOMAIN st.tmp
            THEN Stop(st, "no_compile")
            ELSE [st EXCEPT !.x[l.go] = GoString(st.tmp[l.tmpc])]
      [] l.t = "tmp_call_fromC" ->
            IF ~HasGo(st, l.go) \/ l.tmpc \notin DOMAIN st.tmp
            THEN Stop(st, "no_compile")
            ELSE IF l.go \in env.tfails
            THEN Exec(l.body,
                      [st EXCEPT !.err = TRUE, !.errmsg = "nested fromC failed",
                                 !.x[l.go] = IF env.partial THEN PartlyWritten
                                             ELSE @],
                      env)
            ELSE [st EXCEPT !.x[l.go] = OpaqueFromC(st.tmp[l.tmpc])]

-----------------------------------------------------------------------------
(* __main__ and the two passes                                             *)

NoCall == [raised |-> FALSE, value |-> <<"<idle>">>]

\* A write to a file: owner is the index in types of the type the pass was
\* at (0 before the loop), kind says which f.write call wrote it.
Chunk(owner, kind, text) == [owner |-> owner, kind |-> kind, text |-> text]
Newline(owner) == Chunk(owner, "nl", <<>>)

\* for extra in extras: f.write(extra); f.write('\n')
RECURSIVE WriteExtras(_, _)
WriteExtras(owner, extras) ==
    IF extras = <<>> THEN <<>>
    ELSE << Chunk(owner, "extra", Head(extras)), Newline(owner) >>
         \o WriteExtras(owner, Tail(extras))

\* no generated function is being called
NoRun == [op |-> "none"]

InitCommon ==
    /\ builtin_type_names = StaticBuiltins
    /\ fn_name = <<>> /\ fn_exported = TRUE /\ fn_out = NoCall
    /\ pc = "main"
    /\ ty_i = 0
    /\ type_extras = <<>> /\ cgo_helpers_preamble = <<>> /\ helper_extras = <<>>
    /\ f_types = <<>> /\ f_helpers = <<>>
    /\ run = NoRun

\* lines 642-644, one iteration
MainBuiltin ==
    /\ pc = "main" /\ builtins # <<>>
    /\ builtin_type_names' =
         DictSet(builtin_type_names, Head(builtins).typename,
                 FmtName(Head(builtins).typename, TRUE))
    /\ builtins' = Tail(builtins)
    /\ UNCHANGED <<nameVars, genVars, pc, run>>

\* the end of the loop of line 642
MainBuiltinsDone ==
    /\ pc = "main" /\ builtins = <<>>
    /\ pc' = "ready"
    /\ UNCHANGED <<run, builtin_type_names, builtins, nameVars, genVars>>

\* xenlight_golang_generate_types, lines 47-50
GenTypesOpen ==
    /\ pc = "ready"
    /\ f_types' = << Chunk(0, "comment", <<>>), Chunk(0, "package", <<>>) >>
    /\ ty_i' = 1
    /\ pc' = "types_loop"
    /\ UNCHANGED <<run, builtin_type_names, builtins, nameVars, types, type_extras,
                   cgo_helpers_preamble, helper_extras, f_helpers>>

\* lines 53-54: the text of the type is written, or the call raises and the
\* with statement closes the file
GenTypesDefine ==
    /\ pc = "types_loop" /\ ty_i <= Len(types)
    /\ LET r == TypeDefine(types[ty_i])
       IN  /\ type_extras' = type_extras \o r.extras
           /\ cgo_helpers_preamble' = cgo_helpers_preamble \o r.preamble
           /\ IF r.raised
              THEN /\ pc' = "types_aborted"
                   /\ UNCHANGED f_types
              ELSE /\ pc' = "types_extras"
                   /\ f_types' = f_types \o << Chunk(ty_i, "primary", r.s),
                                              Newline(ty_i) >>
    /\ UNCHANGED <<run, builtin_type_names, builtins, nameVars, types, ty_i,
                   helper_extras, f_helpers>>

\* lines 57-59
GenTypesExtras ==
    /\ pc = "types_extras"
    /\ f_types' = f_types \o WriteExtras(ty_i, type_extras)
    /\ pc' = "types_clear"
    /\ UNCHANGED <<run, builtin_type_names, builtins, nameVars, types, ty_i,
                   type_extras, cgo_helpers_preamble, helper_extras, f_helpers>>

\* GenTypesClear without line 61: the list is not cleared
GenTypesClearKeepsList ==
    /\ pc = "types_clear"
    /\ ty_i' = ty_i + 1
    /\ pc' = "types_loop"
    /\ UNCHANGED <<run, builtin_type_names, builtins, nameVars, types, type_extras,
                   cgo_helpers_preamble, helper_extras, f_types, f_helpers>>

\* line 61, and on to the next type
GenTypesClear ==
    /\ pc = "types_clear"
    /\ type_extras' = <<>>
    /\ ty_i' = ty_i + 1
    /\ pc' = "types_loop"
    /\ UNCHANGED <<run, builtin_type_names, builtins, nameVars, types,
                   cgo_helpers_preamble, helper_extras, f_types, f_helpers>>

\* the end of the loop of line 52, and line 63
GenTypesClose ==
    /\ pc = "types_loop" /\ ty_i > Len(types)
    /\ pc' = "types_done"
    /\ UNCHANGED <<run, builtin_type_names, builtins, nameVars, genVars>>

\* xenlight_golang_generate_helpers, lines 208-225.  __main__ calls it after
\* generate_types; as a function of the module it can be called first.
GenHelpersOpen ==
    /\ pc \in {"ready", "types_done"}
    /\ f_helpers' = << Chunk(0, "comment", <<>>), Chunk(0, "package", <<>>),
                       Chunk(0, "import", <<>>), Chunk(0, "cgo_begin", <<>>) >>
                    \o WriteExtras(0, cgo_helpers_preamble)
                    \o << Chunk(0, "cgo_end", <<>>) >>
    /\ ty_i' = 1
    /\ pc' = "helpers_loop"
    /\ UNCHANGED <<run, builtin_type_names, builtins, nameVars, types, type_extras,
                   cgo_helpers_preamble, helper_extras, f_types>>

\* lines 228-229
GenHelpersSkip ==
    /\ pc = "helpers_loop" /\ ty_i <= Len(types)
    /\ types[ty_i].kind # "Struct"
    /\ ty_i' = ty_i + 1
    /\ UNCHANGED <<run, builtin_type_names, builtins, nameVars, types, type_extras,
                   cgo_helpers_preamble, helper_extras, f_types, f_helpers, pc>>

\* lines 231-232
GenHelpersFromC ==
    /\ pc = "helpers_loop" /\ ty_i <= Len(types)
    /\ types[ty_i].kind = "Struct"
    /\ LET r == DefineFromC(types[ty_i], NoneName, FALSE)
       IN  /\ helper_extras' = helper_extras \o r.extras
           /\ IF r.raised
              THEN /\ pc' = "helpers_aborted"
                   /\ UNCHANGED f_helpers
              ELSE /\ pc' = "helpers_extras"
                   /\ f_helpers' = f_helpers \o << Chunk(ty_i, "fromC", r.s),
                                                  Newline(ty_i) >>
    /\ UNCHANGED <<run, builtin_type_names, builtins, nameVars, types, ty_i,
                   type_extras, cgo_helpers_preamble, f_types>>

\* lines 234-236
GenHelpersExtras ==
    /\ pc = "helpers_extras"
    /\ f_helpers' = f_helpers \o WriteExtras(ty_i, helper_extras)
    /\ pc' = "helpers_clear"
    /\ UNCHANGED <<run, builtin_type_names, builtins, nameVars, types, ty_i,
                   type_extras, cgo_helpers_preamble, helper_extras, f_types>>

\* line 238
GenHelpersClear ==
    /\ pc = "helpers_clear"
    /\ helper_extras' = <<>>
    /\ pc' = "helpers_toC"
    /\ UNCHANGED <<run, builtin_type_names, builtins, nameVars, types, ty_i,
                   type_extras, cgo_helpers_preamble, f_types, f_helpers>>

\* lines 240-241, and on to the next type
GenHelpersToC ==
    /\ pc = "helpers_toC"
    /\ LET r == DefineToC(types[ty_i], NoneName, FALSE)
       IN  IF r.raised
           THEN /\ pc' = "helpers_aborted"
                /\ UNCHANGED <<f_helpers, ty_i>>
           ELSE /\ pc' = "helpers_loop"
                /\ ty_i' = ty_i + 1
                /\ f_helpers' = f_helpers \o << Chunk(ty_i, "toC", r.s),
                                               Newline(ty_i) >>
    /\ UNCHANGED <<run, builtin_type_names, builtins, nameVars, types,
                   type_extras, cgo_helpers_preamble, helper_extras, f_types>>

\* the end of the loop of line 227, and line 243
GenHelpersClose ==
    /\ pc = "helpers_loop" /\ ty_i > Len(types)
    /\ pc' = "helpers_done"
    /\ UNCHANGED <<run, builtin_type_names, builtins, nameVars, genVars>>

InitGen ==
    /\ InitCommon
    /\ builtins = <<T_defbool, T_uuid>>
    /\ types \in Schemas

NextGen ==
    \/ MainBuiltin \/ MainBuiltinsDone
    \/ GenTypesOpen \/ GenTypesDefine \/ GenTypesExtras \/ GenTypesClear
    \/ GenTypesClose
    \/ GenHelpersOpen \/ GenHelpersSkip \/ GenHelpersFromC \/ GenHelpersExtras
    \/ GenHelpersClear \/ GenHelpersToC \/ GenHelpersClose

SpecGen == InitGen /\ [][NextGen]_vars

-----------------------------------------------------------------------------
(* Calls of xenlight_golang_fmt_name                                       *)

NameWords == {N_empty, N_libxl, N_LIBXL, N_foo, N_Foo, N_fooBar, N_a1b}

\* the most words of a name
MaxWords == 2

NativeNames ==
    {StrJoinSep(ws, "_") : ws \in SeqsUpTo(NameWords, MaxWords) \ {<<>>}}
    \cup {N_uint8, N_charp, N_libxl_defbool}

\* a call of xenlight_golang_fmt_name(name, exported)
FmtNameCall ==
    /\ fn_out = NoCall
    /\ \E name \in NativeNames, exported \in BOOLEAN :
         /\ fn_name' = name
         /\ fn_exported' = exported
         /\ fn_out' = FmtNameIn(builtin_type_names, name, exported)
    /\ UNCHANGED <<run, builtin_type_names, builtins, pc, genVars>>

\* the caller takes the result, or the exception
FmtNameReturn ==
    /\ fn_out # NoCall
    /\ fn_name' = <<>> /\ fn_exported' = TRUE /\ fn_out' = NoCall
    /\ UNCHANGED <<run, builtin_type_names, builtins, pc, genVars>>

InitName ==
    /\ InitCommon
    /\ builtins \in BuiltinLists
    /\ types = <<>>

NextName == MainBuiltin \/ MainBuiltinsDone \/ FmtNameCall \/ FmtNameReturn

SpecName == InitName /\ [][NextName]_vars

-----------------------------------------------------------------------------
(* Calls of the generated functions.  __main__ has run over an enumeration *)
(* and a struct; the functions called are the text it wrote to             *)
(* xenlight_helpers.go, with the constants it wrote to xenlight_types.go.  *)

RunTypes == {T_pure, T_deep, T_vm, T_arr, T_list}

\* the struct whose toC and fromC are called: the last of types
RunIndex == Len(types)
RunType  == types[RunIndex]

\* the constants declared in a file
ConstsOf(file) ==
    UNION {{<<file[i].text[j].name, file[i].text[j].value>> :
               j \in {k \in 1..Len(file[i].text) : file[i].text[k].t = "const"}} :
             i \in {k \in 1..Len(file) : file[k].kind = "primary"}}

\* the text a pass wrote for a type
TextOf(file, owner, kind) ==
    file[CHOOSE i \in 1..Len(file) :
            file[i].owner = owner /\ file[i].kind = kind].text

\* the functions written after the fromC of a type
FuncsOf(file, owner) ==
    LET chunks == SelectSeq(file, LAMBDA c : c.owner = owner /\ c.kind = "extra")
    IN  [i \in 1..Len(chunks) |-> chunks[i].text]

\* the members of a struct whose type has its own toC and fromC, by their
\* Go path and by their C path
OpaqueMembers(ty) ==
    {<<FmtName(ty.fields[i].name, TRUE)>> :
        i \in {k \in 1..Len(ty.fields) :
                 /\ ty.fields[k].type.typename # NoneName
                 /\ ty.fields[k].type.kind # "Array"
                 /\ ~IsCastable(ty.fields[k].type)}}
OpaqueCMembers(ty) ==
    {<<CgoName(ty.fields[i].name)>> :
        i \in {k \in 1..Len(ty.fields) :
                 /\ ty.fields[k].type.typename # NoneName
                 /\ ty.fields[k].type.kind # "Array"
                 /\ ~IsCastable(ty.fields[k].type)}}

\* the same for the variant structs of the unions of a struct
VariantOpaqueMembers(ty) ==
    UNION {UNION {OpaqueMembers(ty.fields[i].type.fields[j].type) :
                    j \in {k \in 1..Len(ty.fields[i].type.fields) :
                             ty.fields[i].type.fields[k].type.kind = "Struct"}} :
             i \in {k \in 1..Len(ty.fields) : ty.fields[k].type.kind = "KeyedUnion"}}

RunEnv(fails, tfails, cfails, efails, partial) ==
    Env(RunType, FuncsOf(f_helpers, RunIndex), ConstsOf(f_types),
        fails, tfails, cfails, efails, partial)

\* the ways the fromC functions of the members can fail during one call:
\* none does, or that of one member, of one member of a variant, or of
\* one array element does
NoFault ==
    [cfails |-> {}, tfails |-> {}, efails |-> {}, partial |-> FALSE]
DecodeFaults(ty) ==
    {NoFault}
    \cup {[NoFault EXCEPT !.cfails = {c}, !.partial = w] :
            c \in OpaqueCMembers(ty), w \in BOOLEAN}
    \cup {[NoFault EXCEPT !.tfails = {t}, !.partial = w] :
            t \in VariantOpaqueMembers(ty), w \in BOOLEAN}
    \cup {[NoFault EXCEPT !.efails = {e}, !.partial = w] :
            e \in IF \E i \in 1..Len(ty.fields) :
                       /\ ty.fields[i].type.kind = "Array"
                       /\ ~ElemCastable(ty.fields[i].type.elem_type)
                  THEN 0..(MaxCap - 1) ELSE {},
            w \in BOOLEAN}

\* both files are written
Generated == pc = "helpers_done" /\ f_types # <<>>

\* xc, err := x.toC()
Encode ==
    /\ Generated /\ run = NoRun
    /\ \E x \in GoValues(RunType, <<>>, "all"),
          fails \in SUBSET OpaqueMembers(RunType),
          tfails \in SUBSET VariantOpaqueMembers(RunType) :
         run' = [op |-> "toC", x |-> x, fails |-> fails, tfails |-> tfails,
                 out |-> Exec(TextOf(f_helpers, RunIndex, "toC"),
                              Start(x, CZero(RunType, <<>>)),
                              RunEnv(fails, tfails, {}, {}, FALSE))]
    /\ UNCHANGED <<builtin_type_names, builtins, pc, nameVars, genVars>>

\* var y T; err := y.fromC(&xc), on the xc a toC returned
DecodeEncoded ==
    /\ Generated /\ run.op = "toC" /\ run.out.status = "ok"
    /\ \E cfails \in SUBSET OpaqueCMembers(RunType) :
         run' = [op |-> "round", x |-> run.x, xc |-> run.out.xc,
                 cfails |-> cfails,
                 out |-> Exec(TextOf(f_helpers, RunIndex, "fromC"),
                              Start(GoZero(RunType), run.out.xc),
                              RunEnv({}, {}, cfails, {}, FALSE))]
    /\ UNCHANGED <<builtin_type_names, builtins, pc, nameVars, genVars>>

\* var y T; err := y.fromC(&xc), on an xc libxl filled in
DecodeNative ==
    /\ Generated /\ run = NoRun
    /\ \E xc \in CInputs(RunType), fault \in DecodeFaults(RunType) :
         run' = [op |-> "fromC", xc |-> xc, cfails |-> fault.cfails,
                 tfails |-> fault.tfails, efails |-> fault.efails,
                 partial |-> fault.partial,
                 out |-> Exec(TextOf(f_helpers, RunIndex, "fromC"),
                              Start(GoZero(RunType), xc),
                              RunEnv({}, fault.tfails, fault.cfails,
                                     fault.efails, fault.partial))]
    /\ UNCHANGED <<builtin_type_names, builtins, pc, nameVars, genVars>>

\* the caller takes the result
RunReturn ==
    /\ run # NoRun
    /\ run' = NoRun
    /\ UNCHANGED <<builtin_type_names, builtins, pc, nameVars, genVars>>

InitRun ==
    /\ InitCommon
    /\ builtins = <<T_defbool, T_uuid>>
    /\ types \in {<<T_kind, T>> : T \in RunTypes}

NextRun ==
    \/ MainBuiltin \/ MainBuiltinsDone
    \/ GenTypesOpen \/ GenTypesDefine \/ GenTypesExtras \/ GenTypesClear
    \/ GenTypesClose
    \/ GenHelpersOpen \/ GenHelpersSkip \/ GenHelpersFromC \/ GenHelpersExtras
    \/ GenHelpersClear \/ GenHelpersToC \/ GenHelpersClose
    \/ Encode \/ DecodeEncoded \/ DecodeNative \/ RunReturn

SpecRun == InitRun /\ [][NextRun]_vars

-----------------------------------------------------------------------------
(* Properties of xenlight_golang_fmt_name, under SpecName                  *)

\* C8: every call of xenlight_golang_fmt_name returns a target identifier;
\* none raises.
C8_FmtNameTotal == fn_out.raised = FALSE

\* The rules C9 states: the first letter of a word upper-cased, the other
\* letters left as they are.
CapFirst(w) == IF w = <<>> THEN w ELSE <<UpperChar(w[1])>> \o Tail(w)

RefDropPrefix(words) == IF words[1] = N_libxl THEN Tail(words) ELSE words

RefFmtName(d, name, exported) ==
    IF name \in DictKeys(d) THEN DictGet(d, name)
    ELSE LET words == RefDropPrefix(StrSplit(name, "_"))
         IN  IF words = <<>> THEN <<>>
             ELSE IF exported
             THEN StrJoin([i \in 1..Len(words) |-> CapFirst(words[i])])
             ELSE StrLower(words[1])
                  \o StrJoin([i \in 1..Len(words) - 1 |-> CapFirst(words[i + 1])])

\* C9: a call that returns, returns what the reference rules give: the
\* builtin's target type for a name of the builtin table; otherwise the
\* words between '_', without a first word 'libxl', each with its first
\* letter upper-cased and, when not exported, the first one lower-cased.
C9_FmtNameMatchesRules ==
    (fn_out # NoCall /\ ~fn_out.raised)
        => fn_out.value = RefFmtName(builtin_type_names, fn_name, fn_exported)

-----------------------------------------------------------------------------
(* Properties of the two passes, under SpecGen                             *)

\* C1: when a pass aborts on an unsupported descriptor, nothing has been
\* written to its artifact: neither the header nor the text of the types
\* before the offending one.
C1_AbortWritesNothing ==
    /\ pc = "types_aborted"   => f_types = <<>>
    /\ pc = "helpers_aborted" => f_helpers = <<>>

\* The fragments C3 expects after the text of a top-level type, from the
\* descriptor alone: for each union met in the order of the fields, its
\* marker interface, then for each variant with a payload, in declared
\* order, the variant's struct and its marker method.
RECURSIVE ExpectedTypeExtras(_)
RECURSIVE ExpectedUnionExtras(_, _, _)
ExpectedTypeExtras(ty) ==
    IF ~IsAggregate(ty) THEN <<>>
    ELSE LET Of(f) ==
               IF f.type.kind = "KeyedUnion" /\ f.type.typename = NoneName
               THEN << << [t |-> "interface_begin",
                           name |-> InterfaceName(ty.typename, f.type.keyvar.name)],
                          [t |-> "interface_method",
                           name |-> InterfaceName(ty.typename, f.type.keyvar.name)],
                          [t |-> "interface_end"] >> >>
                    \o ExpectedUnionExtras(f.type, ty.typename, 1)
               ELSE IF f.type.kind = "Struct" /\ f.type.typename = NoneName
               THEN ExpectedTypeExtras(f.type)
               ELSE <<>>
             Cat[i \in 0..Len(ty.fields)] ==
               IF i = 0 THEN <<>> ELSE Cat[i - 1] \o Of(ty.fields[i])
         IN  Cat[Len(ty.fields)]

ExpectedUnionExtras(u, structname, i) ==
    IF i > Len(u.fields) THEN <<>>
    ELSE LET v == u.fields[i]
             name == VariantName(structname, u.keyvar.name, v.name)
         IN  (IF v.type.kind = "None" THEN <<>>
              ELSE ExpectedTypeExtras(v.type)
                   \o << DefineStruct(v.type, name, FALSE).s,
                         << [t |-> "marker_method", name |-> FmtName(name, TRUE),
                             interface |->
                               InterfaceName(structname, u.keyvar.name)] >> >>)
             \o ExpectedUnionExtras(u, structname, i + 1)

\* what the declaration pass has written once it is through type i
RECURSIVE ExpectedTypesFile(_)
ExpectedTypesFile(i) ==
    IF i = 0 THEN << Chunk(0, "comment", <<>>), Chunk(0, "package", <<>>) >>
    ELSE ExpectedTypesFile(i - 1)
         \o << Chunk(i, "primary", TypeDefine(types[i]).s), Newline(i) >>
         \o WriteExtras(i, ExpectedTypeExtras(types[i]))

\* what the marshaling pass has written once it is through type i, after
\* the header and the preamble
RECURSIVE ExpectedHelpersBody(_)
ExpectedHelpersBody(i) ==
    IF i = 0 THEN <<>>
    ELSE ExpectedHelpersBody(i - 1)
         \o (IF types[i].kind # "Struct" THEN <<>>
             ELSE << Chunk(i, "fromC", DefineFromC(types[i], NoneName, FALSE).s),
                     Newline(i) >>
                  \o WriteExtras(i, DefineFromC(types[i], NoneName, FALSE).extras)
                  \o << Chunk(i, "toC", DefineToC(types[i], NoneName, FALSE).s),
                        Newline(i) >>)

\* the chunks of a file written in the loop of a pass
LoopChunks(f) == SelectSeq(f, LAMBDA ch : ch.owner > 0)

\* C3: the lists of deferred fragments are drained per top-level type.
\* Whenever a pass is between two top-level types or at its end, the list
\* is empty, and the file holds, for each type processed so far, its text
\* followed directly by its own fragments, each once, in insertion order
\* (the marker interface, then per payload variant its struct and its
\* marker method), under that type and no other.
C3_ExtrasDrainedPerType ==
    /\ pc \in {"types_loop", "types_done"} =>
         /\ type_extras = <<>>
         /\ f_types = ExpectedTypesFile(ty_i - 1)
    /\ pc \in {"helpers_loop", "helpers_toC", "helpers_done"} =>
         helper_extras = <<>>
    /\ pc \in {"helpers_loop", "helpers_done"} =>
         LoopChunks(f_helpers) = ExpectedHelpersBody(ty_i - 1)

\* Both passes went through two structs with a union each, and every
\* fragment of both is in the files.
C3_Witness ==
    /\ pc = "helpers_done"
    /\ types = <<T_dom, T_dom>>
    /\ \E i, j \in 1..Len(f_types) :
         /\ f_types[i].kind = "extra" /\ f_types[i].owner = 1
         /\ f_types[j].kind = "extra" /\ f_types[j].owner = 2
    /\ Len(SelectSeq(f_types, LAMBDA ch : ch.kind = "extra")) = 10
    /\ Len(SelectSeq(f_helpers, LAMBDA ch : ch.kind = "extra" /\ ch.owner > 0)) = 4

\* The names a line uses to access native storage, the lines of its
\* branches included.
RECURSIVE NativeNamesOf(_)
NativeNamesOf(lines) ==
    IF lines = <<>> THEN {}
    ELSE LET l == Head(lines)
             has(k) == k \in DOMAIN l
         IN  (IF has("c") THEN {l.c[i] : i \in 1..Len(l.c)} ELSE {})
             \cup (IF has("tmpc") THEN {l.tmpc} ELSE {})
             \cup (IF has("varc") THEN {l.varc} ELSE {})
             \cup (IF has("body") THEN NativeNamesOf(l.body) ELSE {})
             \cup (IF has("default") THEN NativeNamesOf(l.default) ELSE {})
             \cup (IF has("cases")
                   THEN UNION {NativeNamesOf(l.cases[i].body) :
                                 i \in 1..Len(l.cases)}
                   ELSE {})
             \cup NativeNamesOf(Tail(lines))

\* the Go members a line names, the lines of its branches included
RECURSIVE GoNamesOf(_)
GoNamesOf(lines) ==
    IF lines = <<>> THEN {}
    ELSE LET l == Head(lines)
             has(k) == k \in DOMAIN l
         IN  (IF has("go") THEN {l.go[i] : i \in 1..Len(l.go)} ELSE {})
             \cup (IF has("body") THEN GoNamesOf(l.body) ELSE {})
             \cup (IF has("default") THEN GoNamesOf(l.default) ELSE {})
             \cup (IF has("cases")
                   THEN UNION {GoNamesOf(l.cases[i].body) : i \in 1..Len(l.cases)}
                   ELSE {})
             \cup GoNamesOf(Tail(lines))

EscapedKeywords == {<<"_">> \o k : k \in go_keywords}

\* C4: no statement written to xenlight_helpers.go accesses native storage
\* by the bare name 'type' or 'func', at whatever kind of access site, and
\* no Go member is named by an escaped name.
C4_KeywordsEscapedEverywhere ==
    \A i \in 1..Len(f_helpers) :
        f_helpers[i].owner > 0 =>
            /\ NativeNamesOf(f_helpers[i].text) \cap go_keywords = {}
            /\ GoNamesOf(f_helpers[i].text) \cap EscapedKeywords = {}

\* isinstance tests of lines 68-71 and of line 228: the kinds each pass
\* has an emitter for.  The marshaling pass emits nothing for an
\* Enumeration by design.
SupportedByTypesPass(ty)   == ty.kind = "Enumeration" \/ IsAggregate(ty)
SupportedByHelpersPass(ty) == ty.kind \in {"Struct", "Enumeration"}

\* C10: a pass never completes over a schema that holds a top-level
\* descriptor of a kind it does not support: it aborts instead of skipping
\* the descriptor or writing empty text for it.
C10_UnsupportedKindAborts ==
    /\ pc = "types_done" =>
         \A i \in 1..Len(types) : SupportedByTypesPass(types[i])
    /\ pc = "helpers_done" =>
         \A i \in 1..Len(types) : SupportedByHelpersPass(types[i])

-----------------------------------------------------------------------------
(* Properties of the generated functions, under SpecRun                    *)

\* the fields of a struct that are keyed unions, and those that are arrays
UnionIndexes(ty) ==
    {i \in 1..Len(ty.fields) : ty.fields[i].type.kind = "KeyedUnion"}
ArrayIndexes(ty) ==
    {i \in 1..Len(ty.fields) : ty.fields[i].type.kind = "Array"}

\* C2: every path of a generated toC that returns a failure calls the
\* dispose function of the top-level type on xc first: the last call made
\* before the return is C.<dispose_fn>(&xc).
C2_FailureDisposes ==
    (run.op = "toC" /\ run.out.status = "err") =>
        /\ run.out.events # <<>>
        /\ run.out.events[Len(run.out.events)]
             = [ev |-> "dispose", arg |-> RunType.dispose_fn]

\* a struct whose fields are scalars, enumerations, strings, or inline
\* structs of those
RECURSIVE CastableOnly(_)
CastableOnly(ty) ==
    \A i \in 1..Len(ty.fields) :
        LET f == ty.fields[i]
        IN  IF f.type.typename # NoneName
            THEN f.type.kind # "Array" /\ IsCastable(f.type)
            ELSE f.type.kind = "Struct" /\ CastableOnly(f.type)

\* C5: for a struct without array and union fields, toC succeeds and fromC
\* on its result succeeds and gives a value equal to x member by member.
\* (The values tried are well formed: the integers are in the range of the
\* member's type and the strings hold no NUL.)
C5_RoundTripIdentity ==
    CastableOnly(RunType) =>
        /\ run.op = "toC" => run.out.status = "ok"
        /\ run.op = "round" => run.out.status = "ok" /\ run.out.x = run.x

SelectedVariants(u, key) ==
    {j \in 1..Len(u.fields) :
        /\ u.fields[j].type.kind = "Struct"
        /\ <<FmtName(Und(u.keyvar.type.typename, u.fields[j].name), TRUE), key>>
             \in ConstsOf(f_types)}

PayloadlessKeys(u) ==
    {u.keyvar.type.values[v].value :
        v \in {w \in 1..Len(u.keyvar.type.values) :
                 \E j \in 1..Len(u.fields) :
                    /\ u.fields[j].type.kind = "None"
                    /\ FmtName(u.keyvar.type.values[w].name, TRUE)
                         = FmtName(Und(u.keyvar.type.typename,
                                       u.fields[j].name), TRUE)}}

\* C11: a variant without a struct has a case in the switch of fromC and in
\* the switch of toC: a value whose discriminant is that of such a variant
\* is not rejected with 'invalid union key'.
C11_PayloadlessRecognized ==
    \A i \in UnionIndexes(RunType) :
        LET u   == RunType.fields[i].type
            key == IF run.op = "toC"
                   THEN run.x[<<FmtName(u.keyvar.name, TRUE)>>]
                   ELSE run.xc[<<CgoName(u.keyvar.name)>>]
        IN  (run.op \in {"toC", "fromC"} /\ key \in PayloadlessKeys(u))
            => ~(run.out.status = "err"
                 /\ run.out.errmsg = "invalid union key")

\* the members reached from ty through inline structs, each by its Go path
\* and its C path from the top-level value: the names of the enclosing
\* struct fields, outermost first, then the member's own name.  A keyed
\* union is reached through its discriminant; arrays have statements of
\* their own and are left out.
RECURSIVE MemberPaths(_, _, _)
MemberPaths(ty, goprefix, cprefix) ==
    UNION {LET f == ty.fields[i]
               go == goprefix \o <<FmtName(f.name, TRUE)>>
           IN  IF f.type.typename # NoneName
               THEN IF f.type.kind = "Array" THEN {}
                    ELSE {<<go, cprefix \o <<CgoName(f.name)>> >>}
               ELSE IF f.type.kind = "Struct"
               THEN MemberPaths(f.type, go, cprefix \o <<f.name>>)
               ELSE {<<goprefix \o <<FmtName(f.type.keyvar.name, TRUE)>>,
                       cprefix \o <<CgoName(f.type.keyvar.name)>> >>} :
             i \in 1..Len(ty.fields)}

\* the Go paths and the C paths the member statements of a function address
GoPathsIn(text) ==
    {text[j].go : j \in {k \in 1..Len(text) :
        text[k].t \in {"cast_from", "gostring", "assign_from_var",
                       "cast_to", "cstring", "call_toC"}}}
CPathsIn(text) ==
    {text[j].c : j \in {k \in 1..Len(text) :
        text[k].t \in {"cast_from", "gostring", "call_fromC",
                       "cast_to", "cstring", "call_toC"}}}

\* C12: the statement fromC and toC have for a member reached through
\* inline structs addresses it by its full path from the top-level value,
\* on the Go side and on the C side, at every depth.
C12_NestedPathsAreFull ==
    Generated =>
        \A kind \in {"fromC", "toC"} :
            LET text  == TextOf(f_helpers, RunIndex, kind)
                paths == MemberPaths(RunType, <<>>, <<>>)
            IN  /\ GoPathsIn(text) = {p[1] : p \in paths}
                /\ CPathsIn(text) = {p[2] : p \in paths}

\* the fields of a struct whose type has a fromC of its own
OpaqueIndexes(ty) ==
    {i \in 1..Len(ty.fields) :
        /\ ty.fields[i].type.typename # NoneName
        /\ ty.fields[i].type.kind # "Array"
        /\ ~IsCastable(ty.fields[i].type)}

\* the local variables of a fromC that hold a variant struct being filled
VariantVars(ty) ==
    UNION {{FmtName(Und(ty.fields[i].type.keyvar.name,
                        ty.fields[i].type.fields[j].name), FALSE) :
              j \in {k \in 1..Len(ty.fields[i].type.fields) :
                       ty.fields[i].type.fields[k].type.kind = "Struct"}} :
             i \in UnionIndexes(ty)}

\* C13: when the fromC of a member that is not castable fails, the fromC of
\* the value returns the failure and has not assigned or changed that
\* member: a member of the struct, a member of a variant struct, and an
\* array member whose element failed, are as they were before the call.
C13_FailedDecodeLeavesMember ==
    (run.op = "fromC" /\ run.out.status = "err"
       /\ run.out.errmsg = "nested fromC failed") =>
        /\ \A i \in OpaqueIndexes(RunType) :
             <<CgoName(RunType.fields[i].name)>> \in run.cfails =>
                 run.out.x[<<FmtName(RunType.fields[i].name, TRUE)>>]
                   = GoZero(RunType)[<<FmtName(RunType.fields[i].name, TRUE)>>]
        /\ \A v \in VariantVars(RunType) \cap DOMAIN run.out.vars :
             \A p \in run.tfails \cap DOMAIN run.out.vars[v].fields :
                 run.out.vars[v].fields[p] = GoOpaque(0)
        /\ run.efails # {} =>
             \A i \in ArrayIndexes(RunType) :
                 run.out.x[<<FmtName(RunType.fields[i].name, TRUE)>>] = <<>>

====
